---- MODULE Spec2Model ----
(***************************************************************************)
(* A model of the predictive-cache library: the LRU core (LRUCache.hpp),   *)
(* the Count-Min Sketch (CountMinSketch.hpp), the TinyLFU-admitted LRU     *)
(* (TinyLFUAdmittingLRU.hpp), the sharded compositions (ShardedLRU.hpp,    *)
(* ShardedWTinyLFU.hpp), the Markov predictor (MarkovPredictor.hpp) and    *)
(* the predictive wrapper (PredictiveShardedCache.hpp).                    *)
(*                                                                         *)
(* Keys are the integers 0..MaxKey (Key = int, std::hash<int> is the       *)
(* identity). Values are 1..MaxVal; 0 stands for Value{} (the default-     *)
(* constructed placeholder). A std::optional is a sequence of length 0     *)
(* (nullopt) or 1.                                                         *)
(***************************************************************************)
EXTENDS Integers, Sequences, FiniteSets, TLC

\* ------------------------------------------------------------- bounds
MaxKey == 2
MaxVal == 2
MaxCap == 3
MaxShards == 2
\* The sketch's dimensions (cms_width, cms_depth), scaled down from 4096 x 4.
CmsWidth == 2
CmsDepth == 2
\* The largest value of a sketch counter: UINT32_MAX, scaled down so that
\* saturation is reached.
CounterMax == 3
\* The most add calls the stand-alone sketch's history counts.
MaxAdds == 4
\* The most transitions one shard's predictor is fed.
MaxObs == 2
NumThreads == 2

Keys == 0..MaxKey
Values == 1..MaxVal
DefaultValue == 0
Threads == 1..NumThreads

Nullopt == <<>>
Some(v) == <<v>>

Min2(a, b) == IF a <= b THEN a ELSE b

\* ------------------------------------------------------- LRUCache.hpp
\* An LRUCache is [items, map, cap]: items_ is the list of <<key, value>>,
\* most recent first; map_ is the set of indexed keys (each one's iterator
\* is the node of items_ holding that key); cap is capacity_.

NewLRU(cap) == [items |-> <<>>, map |-> {}, cap |-> cap]

\* The node map_[key] refers to: the position of key in items_.
NodeOf(c, key) == CHOOSE p \in 1..Len(c.items) : c.items[p][1] = key

RemoveAt(s, p) == SubSeq(s, 1, p - 1) \o SubSeq(s, p + 1, Len(s))

\* items_.splice(items_.begin(), items_, it)
SpliceFront(s, p) == <<s[p]>> \o RemoveAt(s, p)

\* A variant of get that returns the value at the head of items_.
LRUGet_FrontValue(c, key) ==
    IF key \notin c.map
    THEN [c |-> c, res |-> Nullopt]
    ELSE [c |-> [c EXCEPT !.items = SpliceFront(c.items, NodeOf(c, key))],
          res |-> Some(c.items[1][2])]

LRUGet(c, key) ==
    IF key \notin c.map
    THEN [c |-> c, res |-> Nullopt]
    ELSE LET p == NodeOf(c, key)
         IN [c |-> [c EXCEPT !.items = SpliceFront(c.items, p)],
             res |-> Some(c.items[p][2])]

\* A variant of put that never evicts.
LRUPut_NoEvict(c, key, value) ==
    IF key \in c.map
    THEN LET p == NodeOf(c, key)
         IN [c EXCEPT !.items =
                 SpliceFront([c.items EXCEPT ![p] = <<key, value>>], p)]
    ELSE [c EXCEPT !.items = <<<<key, value>>>> \o c.items,
                   !.map = c.map \cup {key}]

\* A variant of put that promotes a resident key without storing the value.
LRUPut_NoOverwrite(c, key, value) ==
    IF key \in c.map
    THEN [c EXCEPT !.items = SpliceFront(c.items, NodeOf(c, key))]
    ELSE LET ins == [c EXCEPT !.items = <<<<key, value>>>> \o c.items,
                              !.map = c.map \cup {key}]
         IN IF Cardinality(ins.map) > ins.cap
            THEN LET oldKey == ins.items[Len(ins.items)][1]
                 IN [ins EXCEPT !.map = ins.map \ {oldKey},
                                !.items = SubSeq(ins.items, 1, Len(ins.items) - 1)]
            ELSE ins

LRUPut(c, key, value) ==
    IF key \in c.map
    THEN LET p == NodeOf(c, key)
         IN [c EXCEPT !.items =
                 SpliceFront([c.items EXCEPT ![p] = <<key, value>>], p)]
    ELSE LET ins == [c EXCEPT !.items = <<<<key, value>>>> \o c.items,
                              !.map = c.map \cup {key}]
         IN IF Cardinality(ins.map) > ins.cap
            THEN LET oldKey == ins.items[Len(ins.items)][1]
                 IN [ins EXCEPT !.map = ins.map \ {oldKey},
                                !.items = SubSeq(ins.items, 1, Len(ins.items) - 1)]
            ELSE ins

\* A variant that unlinks the node and leaves the key in map_.
LRUErase_KeepsMapEntry(c, key) ==
    IF key \notin c.map
    THEN [c |-> c, res |-> FALSE]
    ELSE [c |-> [c EXCEPT !.items = RemoveAt(c.items, NodeOf(c, key))],
          res |-> TRUE]

LRUErase(c, key) ==
    IF key \notin c.map
    THEN [c |-> c, res |-> FALSE]
    ELSE [c |-> [c EXCEPT !.items = RemoveAt(c.items, NodeOf(c, key)),
                          !.map = c.map \ {key}],
          res |-> TRUE]

LRUContains(c, key) == key \in c.map

LRUSize(c) == Cardinality(c.map)

peek_lru_key(c) ==
    IF c.items = <<>> THEN Nullopt ELSE Some(c.items[Len(c.items)][1])

\* ------------------------------------------------- CountMinSketch.hpp
\* The sketch is rows_: [0..depth-1 -> [0..width-1 -> counter]].

RECURSIVE BitXor(_, _)
BitXor(a, b) ==
    IF a = 0 THEN b
    ELSE IF b = 0 THEN a
    ELSE (((a % 2) + (b % 2)) % 2) + 2 * BitXor(a \div 2, b \div 2)

RECURSIVE BitAnd(_, _)
BitAnd(a, b) ==
    IF a = 0 \/ b = 0 THEN 0
    ELSE ((a % 2) * (b % 2)) + 2 * BitAnd(a \div 2, b \div 2)

\* std::hash<int>: the identity.
Hash(k) == k

\* The low 16 bits of seeds[0..7] and of 0x9e3779b97f4a7c15. index() masks
\* with width_ - 1, so for width_ <= 65536 only these bits of the 64-bit
\* arithmetic (which wraps, and so commutes with % 65536) decide the column.
SeedsLow == <<51847, 60239, 31225, 64915, 4587, 56605, 28437, 31765>>
GoldenLow == 31765

index(k, i, width) ==
    LET h == Hash(k)
        mix == (SeedsLow[(i % 8) + 1] + GoldenLow + (h * 64) + (h \div 4)) % 65536
    IN BitAnd(BitXor(h % 65536, mix), width - 1)

NewCMS(width, depth) == [i \in 0..(depth - 1) |-> [j \in 0..(width - 1) |-> 0]]

CmsDepthOf(rows) == Cardinality(DOMAIN rows)
CmsWidthOf(rows) == Cardinality(DOMAIN rows[0])

\* One counter's saturating increment.
SatInc(c) == IF c /= CounterMax THEN c + 1 ELSE c

\* add(k): each row's counter of k is incremented once. Two rows never
\* share a counter, so the loop is one simultaneous update.
CmsAdd(rows, k) ==
    [i \in DOMAIN rows |->
        [rows[i] EXCEPT ![index(k, i, CmsWidthOf(rows))] = SatInc(@)]]

RECURSIVE EstimateLoop(_, _, _, _)
EstimateLoop(rows, k, i, m) ==
    IF i >= CmsDepthOf(rows) THEN m
    ELSE EstimateLoop(rows, k, i + 1,
                      Min2(m, rows[i][index(k, i, CmsWidthOf(rows))]))

CmsEstimate(rows, k) ==
    LET m == EstimateLoop(rows, k, 0, CounterMax)
    IN IF m = CounterMax THEN 0 ELSE m

\* A variant of decay_half that shifts left (the counter is CounterMax + 1 wide).
CmsDecayHalf_ShiftLeft(rows) ==
    [i \in DOMAIN rows |->
        [j \in DOMAIN rows[i] |-> (rows[i][j] * 2) % (CounterMax + 1)]]

CmsDecayHalf(rows) == [i \in DOMAIN rows |-> [j \in DOMAIN rows[i] |-> rows[i][j] \div 2]]

\* -------------------------------------------- TinyLFUAdmittingLRU.hpp
\* A TinyLFUAdmittingLRU is [lru, cms].

NewTiny(cap, width, depth) ==
    [lru |-> NewLRU(cap), cms |-> NewCMS(width, depth)]

\* A variant of get that counts the key in the sketch only on a hit.
TinyGet_CountsHitsOnly(t, key) ==
    LET g == LRUGet(t.lru, key)
    IN [t |-> [lru |-> g.c,
               cms |-> IF g.res = Nullopt THEN t.cms ELSE CmsAdd(t.cms, key)],
        res |-> g.res]

TinyGet(t, key) ==
    LET cms1 == CmsAdd(t.cms, key)
        g == LRUGet(t.lru, key)
    IN [t |-> [lru |-> g.c, cms |-> cms1], res |-> g.res]

\* A variant of put that admits only a strictly more frequent newcomer.
TinyPut_StrictAdmit(t, key, value) ==
    LET cms1 == CmsAdd(t.cms, key)
        victim == peek_lru_key(t.lru)
    IN IF LRUContains(t.lru, key) \/ LRUSize(t.lru) < t.lru.cap \/ victim = Nullopt
       THEN [t |-> [lru |-> LRUPut(t.lru, key, value), cms |-> cms1],
             branch |-> "insert"]
       ELSE IF CmsEstimate(cms1, key) > CmsEstimate(cms1, victim[1])
            THEN [t |-> [lru |-> LRUPut(LRUErase(t.lru, victim[1]).c, key, value),
                         cms |-> cms1],
                  branch |-> "admit"]
            ELSE [t |-> [lru |-> t.lru, cms |-> cms1], branch |-> "reject"]

\* A variant of put that erases the victim before it compares the estimates.
TinyPut_EraseBeforeCompare(t, key, value) ==
    LET cms1 == CmsAdd(t.cms, key)
        victim == peek_lru_key(t.lru)
    IN IF LRUContains(t.lru, key) \/ LRUSize(t.lru) < t.lru.cap \/ victim = Nullopt
       THEN [t |-> [lru |-> LRUPut(t.lru, key, value), cms |-> cms1],
             branch |-> "insert"]
       ELSE LET erased == LRUErase(t.lru, victim[1]).c
            IN IF CmsEstimate(cms1, key) >= CmsEstimate(cms1, victim[1])
               THEN [t |-> [lru |-> LRUPut(erased, key, value), cms |-> cms1],
                     branch |-> "admit"]
               ELSE [t |-> [lru |-> erased, cms |-> cms1], branch |-> "reject"]

\* put returns the new state and the branch of the code it took.
TinyPut(t, key, value) ==
    LET cms1 == CmsAdd(t.cms, key)
        victim == peek_lru_key(t.lru)
    IN IF LRUContains(t.lru, key)
       THEN [t |-> [lru |-> LRUPut(t.lru, key, value), cms |-> cms1],
             branch |-> "update"]
       ELSE IF LRUSize(t.lru) < t.lru.cap
       THEN [t |-> [lru |-> LRUPut(t.lru, key, value), cms |-> cms1],
             branch |-> "insert"]
       ELSE IF victim = Nullopt
       THEN [t |-> [lru |-> LRUPut(t.lru, key, value), cms |-> cms1],
             branch |-> "novictim"]
       ELSE LET newEst == CmsEstimate(cms1, key)
                victimEst == CmsEstimate(cms1, victim[1])
            IN IF newEst >= victimEst
               THEN [t |-> [lru |-> LRUPut(LRUErase(t.lru, victim[1]).c, key, value),
                            cms |-> cms1],
                     branch |-> "admit"]
               ELSE [t |-> [lru |-> t.lru, cms |-> cms1], branch |-> "reject"]

TinyContains(t, key) == LRUContains(t.lru, key)

TinyErase(t, key) ==
    LET e == LRUErase(t.lru, key)
    IN [t |-> [t EXCEPT !.lru = e.c], res |-> e.res]

TinyDecay(t) == [t EXCEPT !.cms = CmsDecayHalf(t.cms)]

\* ---------------------------------------------------- ShardedLRU.hpp
\* A sharded cache is shards_: [0..num_shards-1 -> shard]. A ShardedLRU's
\* shard is [lru, cms] with no sketch (cms = <<>>); a ShardedWTinyLFU's shard
\* is a TinyLFUAdmittingLRU.

NumShardsOf(sh) == Cardinality(DOMAIN sh)

\* A variant of the split that gives every shard the remainder.
ShardCap_ExtraToAll(cap, num_shards, i) ==
    (cap \div num_shards) + (cap % num_shards)

\* The capacity the constructor gives shard i.
ShardCap(cap, num_shards, i) ==
    LET base == cap \div num_shards
        extra == cap % num_shards
    IN base + (IF i = num_shards - 1 THEN extra ELSE 0)

NewShardedLRU(cap, num_shards) ==
    [i \in 0..(num_shards - 1) |->
        [lru |-> NewLRU(ShardCap(cap, num_shards, i)), cms |-> <<>>]]

shard_idx(sh, key) == Hash(key) % NumShardsOf(sh)

SLRUGet(sh, key) ==
    LET i == shard_idx(sh, key)
        g == LRUGet(sh[i].lru, key)
    IN [sh |-> [sh EXCEPT ![i].lru = g.c], res |-> g.res]

SLRUPut(sh, key, value) ==
    LET i == shard_idx(sh, key)
    IN [sh EXCEPT ![i].lru = LRUPut(sh[i].lru, key, value)]

SLRUContains(sh, key) == LRUContains(sh[shard_idx(sh, key)].lru, key)

SLRUErase(sh, key) ==
    LET i == shard_idx(sh, key)
        e == LRUErase(sh[i].lru, key)
    IN [sh |-> [sh EXCEPT ![i].lru = e.c], res |-> e.res]

\* ----------------------------------------------- ShardedWTinyLFU.hpp
NewShardedWTinyLFU(cap, num_shards, width, depth) ==
    [i \in 0..(num_shards - 1) |->
        NewTiny(ShardCap(cap, num_shards, i), width, depth)]

idx(sh, key) == Hash(key) % NumShardsOf(sh)

SWTGet(sh, key) ==
    LET i == idx(sh, key)
        g == TinyGet(sh[i], key)
    IN [sh |-> [sh EXCEPT ![i] = g.t], res |-> g.res]

SWTPut(sh, key, value) ==
    LET i == idx(sh, key)
        p == TinyPut(sh[i], key, value)
    IN [sh |-> [sh EXCEPT ![i] = p.t], branch |-> p.branch]

SWTErase(sh, key) ==
    LET i == idx(sh, key)
        e == TinyErase(sh[i], key)
    IN [sh |-> [sh EXCEPT ![i] = e.t], res |-> e.res]

\* ----------------------------------------------- MarkovPredictor.hpp
\* A predictor is [trans, totals]: trans_ maps a present predecessor to the
\* map of its present successors' counts, totals_ a present predecessor to
\* its total. An unordered_map is a function on the set of its keys.

\* The largest value of a predictor counter: UINT32_MAX, scaled down.
MarkovCounterMax == 7

EmptyMap == <<>>
NewMarkov == [trans |-> EmptyMap, totals |-> EmptyMap]

MapSet(f, k, v) == [x \in (DOMAIN f) \cup {k} |-> IF x = k THEN v ELSE f[x]]
MapErase(f, ks) == [x \in (DOMAIN f) \ ks |-> f[x]]

\* ++ on an unsigned counter: it wraps.
WrapInc(c) == (c + 1) % (MarkovCounterMax + 1)

observe(m, prev, cur) ==
    LET inner == IF prev \in DOMAIN m.trans THEN m.trans[prev] ELSE EmptyMap
        cnt == IF cur \in DOMAIN inner THEN inner[cur] ELSE 0
        tot == IF prev \in DOMAIN m.totals THEN m.totals[prev] ELSE 0
    IN [trans |-> MapSet(m.trans, prev, MapSet(inner, cur, WrapInc(cnt))),
        totals |-> MapSet(m.totals, prev, WrapInc(tot))]

\* A variant that sorts by increasing probability.
SortedOrders_Ascending(cand, inner) ==
    {s \in [1..Cardinality(cand) -> cand] :
        /\ \A a, b \in 1..Cardinality(cand) : a /= b => s[a] /= s[b]
        /\ \A a, b \in 1..Cardinality(cand) : a < b => inner[s[a]] <= inner[s[b]]}

\* The orders std::sort may leave the candidates in: every arrangement with
\* non-increasing probability (p = c / total with one total, so by count);
\* the order within a tie is the implementation's.
SortedOrders(cand, inner) ==
    {s \in [1..Cardinality(cand) -> cand] :
        /\ \A a, b \in 1..Cardinality(cand) : a /= b => s[a] /= s[b]
        /\ \A a, b \in 1..Cardinality(cand) : a < b => inner[s[a]] >= inner[s[b]]}

\* A variant that returns one candidate even when top_k is 0.
topk_next_AtLeastOne(m, cur, top_k, min_count, probNum, probDen) ==
    IF cur \notin DOMAIN m.trans THEN {<<>>}
    ELSE IF cur \notin DOMAIN m.totals \/ m.totals[cur] = 0 THEN {<<>>}
    ELSE LET inner == m.trans[cur]
             total == m.totals[cur]
             cand == {nxt \in DOMAIN inner :
                         /\ ~(inner[nxt] < min_count)
                         /\ inner[nxt] * probDen >= probNum * total}
         IN {SubSeq(s, 1, Min2(IF top_k = 0 THEN 1 ELSE top_k, Len(s))) :
                s \in SortedOrders(cand, inner)}

\* topk_next: the set of lists the call may return. min_prob is the
\* fraction probNum / probDen.
topk_next(m, cur, top_k, min_count, probNum, probDen) ==
    IF cur \notin DOMAIN m.trans THEN {<<>>}
    ELSE IF cur \notin DOMAIN m.totals \/ m.totals[cur] = 0 THEN {<<>>}
    ELSE LET inner == m.trans[cur]
             total == m.totals[cur]
             cand == {nxt \in DOMAIN inner :
                         /\ ~(inner[nxt] < min_count)
                         /\ inner[nxt] * probDen >= probNum * total}
         IN {SubSeq(s, 1, Min2(top_k, Len(s))) : s \in SortedOrders(cand, inner)}

MarkovDecayHalf(m) ==
    [trans |-> [p \in DOMAIN m.trans |->
                   LET mp == m.trans[p]
                   IN [k \in {x \in DOMAIN mp : mp[x] \div 2 /= 0} |-> mp[k] \div 2]],
     totals |-> [p \in {x \in DOMAIN m.totals : m.totals[x] \div 2 /= 0} |->
                   m.totals[p] \div 2]]

\* ---------------------------------------- PredictiveShardedCache.hpp
\* The wrapper is base_ (a ShardedWTinyLFU), opts_, and per shard preds_ and
\* prev_. P is [base, preds, prev].

\* A variant that sends every key to the wrapper's first shard.
shidx_First(o, k) == 0

shidx(o, k) == Hash(k) % o.shards

\* A variant that looks each candidate up and inserts none.
RECURSIVE PrefetchLoop_LookupOnly(_, _, _)
PrefetchLoop_LookupOnly(base, cand, n) ==
    IF n > Len(cand) THEN base
    ELSE PrefetchLoop_LookupOnly(SWTGet(base, cand[n]).sh, cand, n + 1)

\* The prefetch loop over the candidates, in order.
RECURSIVE PrefetchLoop(_, _, _)
PrefetchLoop(base, cand, n) ==
    IF n > Len(cand) THEN base
    ELSE LET g == SWTGet(base, cand[n])
             after == IF g.res = Nullopt
                      THEN SWTPut(g.sh, cand[n], DefaultValue).sh
                      ELSE g.sh
         IN PrefetchLoop(after, cand, n + 1)

\* get(key), with cand the list topk_next returned.
PredGet(P, o, key, cand) ==
    LET i == shidx(o, key)
        learned == IF P.prev[i] /= Nullopt
                   THEN observe(P.preds[i], P.prev[i][1], key)
                   ELSE P.preds[i]
        g == SWTGet(P.base, key)
        base1 == IF o.enable_prefetch THEN PrefetchLoop(g.sh, cand, 1) ELSE g.sh
    IN [P |-> [base |-> base1,
               preds |-> [P.preds EXCEPT ![i] = learned],
               prev |-> [P.prev EXCEPT ![i] = Some(key)]],
        res |-> g.res]

\* The lists get(key) may prefetch: topk_next on the predictor as learned.
PredCandidates(P, o, key) ==
    LET i == shidx(o, key)
        learned == IF P.prev[i] /= Nullopt
                   THEN observe(P.preds[i], P.prev[i][1], key)
                   ELSE P.preds[i]
    IN topk_next(learned, key, o.prefetch_topk, o.min_trans_count,
                 o.min_prob_num, o.min_prob_den)

\* A variant of put that records the transition from the shard's previous
\* key as get does.
PredPut_Learns(P, o, key, value) ==
    LET i == shidx(o, key)
        p == SWTPut(P.base, key, value)
        learned == IF P.prev[i] /= Nullopt
                   THEN observe(P.preds[i], P.prev[i][1], key)
                   ELSE P.preds[i]
    IN [P |-> [base |-> p.sh,
               preds |-> [P.preds EXCEPT ![i] = learned],
               prev |-> [P.prev EXCEPT ![i] = Some(key)]],
        branch |-> p.branch]

PredPut(P, o, key, value) ==
    LET i == shidx(o, key)
        p == SWTPut(P.base, key, value)
    IN [P |-> [P EXCEPT !.base = p.sh, !.prev[i] = Some(key)],
        branch |-> p.branch]

PredErase(P, key) ==
    LET e == SWTErase(P.base, key)
    IN [P |-> [P EXCEPT !.base = e.sh], res |-> e.res]

PredDecayModels(P) ==
    [P EXCEPT !.preds = [i \in DOMAIN P.preds |-> MarkovDecayHalf(P.preds[i])]]

\* ================================================== the state machine
\* kind      the class of the object under test
\* opts      PredictiveShardedCache::Options (opts_)
\* capacity  the capacity the object was constructed with
\* shards    the object's shards_ (base_.shards_ for the wrapper); an
\*           LRUCache or a TinyLFUAdmittingLRU on its own is shards[0], a
\*           CountMinSketch on its own is shards[0].cms
\* preds     the wrapper's preds_
\* prev      the wrapper's prev_
\* locks     locks_: the thread holding each shard's mutex, 0 when free
\* thr       each thread's call in progress
\* supplied  history: the <<key, value>> pairs put has been called with
\* adds      history: the add calls made on the stand-alone sketch
\* wlocks    the wrapper's own locks_, as locks
\* wthr      each thread's call on the wrapper in progress
\* work      the benchmark loop's position: the index of its next key, whether
\*           the last get missed (its put is due), the full rounds made
VARIABLES kind, capacity, opts, shards, preds, prev, locks, thr, supplied, adds,
          wlocks, wthr, work

vars == <<kind, capacity, opts, shards, preds, prev, locks, thr, supplied, adds,
          wlocks, wthr, work>>

DefaultOpts ==
    [shards |-> 1, prefetch_topk |-> 1, min_trans_count |-> 4,
     min_prob_num |-> 1, min_prob_den |-> 5, enable_prefetch |-> TRUE]

IdleThread == [pc |-> "idle", op |-> "none", key |-> 0, val |-> 0, i |-> 0,
               res |-> Nullopt, ok |-> FALSE, s |-> 0]

\* A thread outside the wrapper. cand is the list topk_next returned and n
\* the position in it; calls counts the thread's calls on the wrapper.
IdleWrapper == [pc |-> "idle", op |-> "none", key |-> 0, val |-> 0, i |-> 0,
                cand |-> <<>>, n |-> 0, res |-> Nullopt, ok |-> FALSE,
                calls |-> 0]

\* The benchmark loop before its first iteration.
NoWork == [pos |-> 0, miss |-> FALSE, rounds |-> 0]

NoAdds == [total |-> [k \in Keys |-> 0], since |-> [k \in Keys |-> 0],
           decayed |-> FALSE]

\* What every construction shares.
InitCommon(cap, sh) ==
    /\ capacity = cap
    /\ shards = sh
    /\ preds = [i \in DOMAIN sh |-> NewMarkov]
    /\ prev = [i \in DOMAIN sh |-> Nullopt]
    /\ locks = [i \in DOMAIN sh |-> 0]
    /\ thr = [t \in Threads |-> IdleThread]
    /\ supplied = {}
    /\ adds = NoAdds
    /\ wlocks = [i \in DOMAIN sh |-> 0]
    /\ wthr = [t \in Threads |-> IdleWrapper]
    /\ work = NoWork

\* ------------------------------------------------ LRUCache, on its own
InitLRU ==
    /\ kind = "LRUCache"
    /\ opts = DefaultOpts
    /\ \E cap \in 0..MaxCap :
          InitCommon(cap, [i \in {0} |-> [lru |-> NewLRU(cap), cms |-> <<>>]])

LRUCache_get(key) ==
    /\ kind = "LRUCache"
    /\ LET g == LRUGet(shards[0].lru, key)
       IN /\ shards' = [shards EXCEPT ![0].lru = g.c]
    /\ UNCHANGED <<kind, capacity, opts, preds, prev, locks, thr, supplied, adds,
                   wlocks, wthr, work>>

LRUCache_put(key, value) ==
    /\ kind = "LRUCache"
    /\ shards' = [shards EXCEPT ![0].lru = LRUPut(shards[0].lru, key, value)]
    /\ UNCHANGED <<kind, capacity, opts, preds, prev, locks, thr, supplied, adds,
                   wlocks, wthr, work>>

LRUCache_erase(key) ==
    /\ kind = "LRUCache"
    /\ LET e == LRUErase(shards[0].lru, key)
       IN /\ shards' = [shards EXCEPT ![0].lru = e.c]
    /\ UNCHANGED <<kind, capacity, opts, preds, prev, locks, thr, supplied, adds,
                   wlocks, wthr, work>>

NextLRU ==
    \/ \E key \in Keys : LRUCache_get(key)
    \/ \E key \in Keys, value \in Values : LRUCache_put(key, value)
    \/ \E key \in Keys : LRUCache_erase(key)

SpecLRU == InitLRU /\ [][NextLRU]_vars

\* ------------------------------------- TinyLFUAdmittingLRU, on its own
InitTiny ==
    /\ kind = "TinyLFUAdmittingLRU"
    /\ opts = DefaultOpts
    /\ \E cap \in 0..MaxCap :
          InitCommon(cap, [i \in {0} |-> NewTiny(cap, CmsWidth, CmsDepth)])

TinyLFU_get(key) ==
    /\ kind = "TinyLFUAdmittingLRU"
    /\ LET g == TinyGet(shards[0], key)
       IN /\ shards' = [shards EXCEPT ![0] = g.t]
    /\ UNCHANGED <<kind, capacity, opts, preds, prev, locks, thr, supplied, adds,
                   wlocks, wthr, work>>

TinyLFU_put(key, value) ==
    /\ kind = "TinyLFUAdmittingLRU"
    /\ LET p == TinyPut(shards[0], key, value)
       IN /\ shards' = [shards EXCEPT ![0] = p.t]
    /\ UNCHANGED <<kind, capacity, opts, preds, prev, locks, thr, supplied, adds,
                   wlocks, wthr, work>>

TinyLFU_erase(key) ==
    /\ kind = "TinyLFUAdmittingLRU"
    /\ LET e == TinyErase(shards[0], key)
       IN /\ shards' = [shards EXCEPT ![0] = e.t]
    /\ UNCHANGED <<kind, capacity, opts, preds, prev, locks, thr, supplied, adds,
                   wlocks, wthr, work>>

TinyLFU_decay ==
    /\ kind = "TinyLFUAdmittingLRU"
    /\ shards' = [shards EXCEPT ![0] = TinyDecay(shards[0])]
    /\ UNCHANGED <<kind, capacity, opts, preds, prev, locks, thr, supplied, adds,
                   wlocks, wthr, work>>

NextTiny ==
    \/ \E key \in Keys : TinyLFU_get(key)
    \/ \E key \in Keys, value \in Values : TinyLFU_put(key, value)
    \/ \E key \in Keys : TinyLFU_erase(key)
    \/ TinyLFU_decay

SpecTiny == InitTiny /\ [][NextTiny]_vars

\* ------------------------------------------ CountMinSketch, on its own
InitCMS ==
    /\ kind = "CountMinSketch"
    /\ opts = DefaultOpts
    /\ InitCommon(0, [i \in {0} |-> NewTiny(0, CmsWidth, CmsDepth)])

SumOver(f) ==
    LET RECURSIVE Sum(_)
        Sum(S) == IF S = {} THEN 0
                  ELSE LET x == CHOOSE y \in S : TRUE IN f[x] + Sum(S \ {x})
    IN Sum(DOMAIN f)

CMS_add(k) ==
    /\ kind = "CountMinSketch"
    /\ SumOver(adds.total) < MaxAdds
    /\ shards' = [shards EXCEPT ![0].cms = CmsAdd(shards[0].cms, k)]
    /\ adds' = [adds EXCEPT !.total[k] = @ + 1, !.since[k] = @ + 1]
    /\ UNCHANGED <<kind, capacity, opts, preds, prev, locks, thr, supplied,
                   wlocks, wthr, work>>

CMS_decay_half ==
    /\ kind = "CountMinSketch"
    /\ shards' = [shards EXCEPT ![0].cms = CmsDecayHalf(shards[0].cms)]
    /\ adds' = [adds EXCEPT !.since = [k \in Keys |-> 0], !.decayed = TRUE]
    /\ UNCHANGED <<kind, capacity, opts, preds, prev, locks, thr, supplied,
                   wlocks, wthr, work>>

NextCMS ==
    \/ \E k \in Keys : CMS_add(k)
    \/ CMS_decay_half

SpecCMS == InitCMS /\ [][NextCMS]_vars

\* --------------------------- the sharded caches, one caller at a time
\* Each action is one whole call: the shard's scoped_lock is taken (it is
\* free: no other call is in progress) and released within it.
InitShardedLRU ==
    /\ kind = "ShardedLRU"
    /\ opts = DefaultOpts
    /\ \E cap \in 0..MaxCap, num_shards \in 1..MaxShards :
          InitCommon(cap, NewShardedLRU(cap, num_shards))

ShardedLRU_get(key) ==
    /\ kind = "ShardedLRU"
    /\ locks[shard_idx(shards, key)] = 0
    /\ LET g == SLRUGet(shards, key)
       IN /\ shards' = g.sh
    /\ UNCHANGED <<kind, capacity, opts, preds, prev, locks, thr, supplied, adds,
                   wlocks, wthr, work>>

ShardedLRU_put(key, value) ==
    /\ kind = "ShardedLRU"
    /\ locks[shard_idx(shards, key)] = 0
    /\ shards' = SLRUPut(shards, key, value)
    /\ UNCHANGED <<kind, capacity, opts, preds, prev, locks, thr, supplied, adds,
                   wlocks, wthr, work>>

ShardedLRU_erase(key) ==
    /\ kind = "ShardedLRU"
    /\ locks[shard_idx(shards, key)] = 0
    /\ LET e == SLRUErase(shards, key)
       IN /\ shards' = e.sh
    /\ UNCHANGED <<kind, capacity, opts, preds, prev, locks, thr, supplied, adds,
                   wlocks, wthr, work>>

NextShardedLRUSeq ==
    \/ \E key \in Keys : ShardedLRU_get(key)
    \/ \E key \in Keys, value \in Values : ShardedLRU_put(key, value)
    \/ \E key \in Keys : ShardedLRU_erase(key)

InitShardedWTinyLFU ==
    /\ kind = "ShardedWTinyLFU"
    /\ opts = DefaultOpts
    /\ \E cap \in 0..MaxCap, num_shards \in 1..MaxShards :
          InitCommon(cap, NewShardedWTinyLFU(cap, num_shards, CmsWidth, CmsDepth))

ShardedWTinyLFU_get(key) ==
    /\ kind = "ShardedWTinyLFU"
    /\ locks[idx(shards, key)] = 0
    /\ LET g == SWTGet(shards, key)
       IN /\ shards' = g.sh
    /\ UNCHANGED <<kind, capacity, opts, preds, prev, locks, thr, supplied, adds,
                   wlocks, wthr, work>>

ShardedWTinyLFU_put(key, value) ==
    /\ kind = "ShardedWTinyLFU"
    /\ locks[idx(shards, key)] = 0
    /\ LET p == SWTPut(shards, key, value)
       IN /\ shards' = p.sh
    /\ UNCHANGED <<kind, capacity, opts, preds, prev, locks, thr, supplied, adds,
                   wlocks, wthr, work>>

ShardedWTinyLFU_erase(key) ==
    /\ kind = "ShardedWTinyLFU"
    /\ locks[idx(shards, key)] = 0
    /\ LET e == SWTErase(shards, key)
       IN /\ shards' = e.sh
    /\ UNCHANGED <<kind, capacity, opts, preds, prev, locks, thr, supplied, adds,
                   wlocks, wthr, work>>

NextShardedWTinyLFUSeq ==
    \/ \E key \in Keys : ShardedWTinyLFU_get(key)
    \/ \E key \in Keys, value \in Values : ShardedWTinyLFU_put(key, value)
    \/ \E key \in Keys : ShardedWTinyLFU_erase(key)

\* The options the benchmark driver sets (bench.cpp), with MaxShards
\* shards and prefetch switched on and off.
BenchTopK == 2
BenchMinTransCount == 2

InitPredictive ==
    /\ kind = "PredictiveShardedCache"
    /\ \E cap \in 0..MaxCap, num_shards \in {MaxShards}, enable \in BOOLEAN :
          /\ opts = [shards |-> num_shards, prefetch_topk |-> BenchTopK,
                     min_trans_count |-> BenchMinTransCount,
                     min_prob_num |-> 1, min_prob_den |-> 10,
                     enable_prefetch |-> enable]
          /\ InitCommon(cap, NewShardedWTinyLFU(cap, num_shards, CmsWidth, CmsDepth))

Wrapper == [base |-> shards, preds |-> preds, prev |-> prev]

Predictive_get(key) ==
    /\ kind = "PredictiveShardedCache"
    /\ prev[shidx(opts, key)] /= Nullopt
          => SumOver(preds[shidx(opts, key)].totals) < MaxObs
    /\ \E cand \in PredCandidates(Wrapper, opts, key) :
          LET g == PredGet(Wrapper, opts, key, cand)
          IN /\ shards' = g.P.base
             /\ preds' = g.P.preds
             /\ prev' = g.P.prev
    /\ UNCHANGED <<kind, capacity, opts, locks, thr, supplied, adds,
                   wlocks, wthr, work>>

Predictive_put(key, value) ==
    /\ kind = "PredictiveShardedCache"
    /\ LET p == PredPut(Wrapper, opts, key, value)
       IN /\ shards' = p.P.base
          /\ preds' = p.P.preds
          /\ prev' = p.P.prev
    /\ UNCHANGED <<kind, capacity, opts, locks, thr, supplied, adds,
                   wlocks, wthr, work>>

Predictive_erase(key) ==
    /\ kind = "PredictiveShardedCache"
    /\ LET e == PredErase(Wrapper, key)
       IN /\ shards' = e.P.base
          /\ preds' = e.P.preds
          /\ prev' = e.P.prev
    /\ UNCHANGED <<kind, capacity, opts, locks, thr, supplied, adds,
                   wlocks, wthr, work>>

Predictive_decay_models ==
    /\ kind = "PredictiveShardedCache"
    /\ preds' = PredDecayModels(Wrapper).preds
    /\ UNCHANGED <<kind, capacity, opts, shards, prev, locks, thr, supplied, adds,
                   wlocks, wthr, work>>

NextPredictiveSeq ==
    \/ \E key \in Keys : Predictive_get(key)
    \/ \E key \in Keys, value \in Values : Predictive_put(key, value)
    \/ \E key \in Keys : Predictive_erase(key)
    \/ Predictive_decay_models

\* The wrapper over MaxShards shards, with prefetch on and off by either
\* switch, and a successor qualifying once it has been seen once.
InitPred ==
    /\ kind = "PredictiveShardedCache"
    /\ \E enable \in BOOLEAN, topk \in 0..1 :
          /\ opts = [shards |-> MaxShards, prefetch_topk |-> topk,
                     min_trans_count |-> 1,
                     min_prob_num |-> 1, min_prob_den |-> 10,
                     enable_prefetch |-> enable]
          /\ InitCommon(MaxCap, NewShardedWTinyLFU(MaxCap, MaxShards,
                                                   CmsWidth, CmsDepth))

SpecPred == InitPred /\ [][NextPredictiveSeq]_vars

\* Every cache type, each driven by one caller.
\* ------------------------------------- MarkovPredictor, on its own
\* The predictor is preds[0]. Its callers pass keys 0..MaxMarkovKey.
MaxMarkovKey == 1
MarkovKeys == 0..MaxMarkovKey

InitMarkov ==
    /\ kind = "MarkovPredictor"
    /\ opts = DefaultOpts
    /\ InitCommon(0, [i \in {0} |-> NewTiny(0, CmsWidth, CmsDepth)])

Markov_observe(p, k) ==
    /\ kind = "MarkovPredictor"
    /\ preds' = [preds EXCEPT ![0] = observe(@, p, k)]
    /\ UNCHANGED <<kind, capacity, opts, shards, prev, locks, thr, supplied, adds,
                   wlocks, wthr, work>>

Markov_decay_half ==
    /\ kind = "MarkovPredictor"
    /\ preds' = [preds EXCEPT ![0] = MarkovDecayHalf(@)]
    /\ UNCHANGED <<kind, capacity, opts, shards, prev, locks, thr, supplied, adds,
                   wlocks, wthr, work>>

NextMarkov ==
    \/ \E p \in MarkovKeys, k \in MarkovKeys : Markov_observe(p, k)
    \/ Markov_decay_half

SpecMarkov == InitMarkov /\ [][NextMarkov]_vars

\* ------------------------------ the benchmark loop on the wrapper
\* run_benchmark on the repeating pattern 0, 1, 2: get the next key and, on
\* a miss, put it. One caller; each action is one whole call.
Pattern == <<0, 1, 2>>
NextKey == Pattern[work.pos + 1]

\* The rounds of the pattern after which the loop counts as warmed up: the
\* transition counts can have reached min_trans_count.
WarmRounds == 2

\* The loop's position after the access of the key at work.pos.
Advance ==
    [pos |-> (work.pos + 1) % Len(Pattern), miss |-> FALSE,
     rounds |-> IF work.pos + 1 = Len(Pattern)
                THEN Min2(work.rounds + 1, WarmRounds) ELSE work.rounds]

InitWorkload ==
    /\ kind = "PredictiveShardedCache"
    /\ \E cap \in 1..MaxCap, num_shards \in 1..MaxShards :
          /\ opts = [shards |-> num_shards, prefetch_topk |-> 1,
                     min_trans_count |-> BenchMinTransCount,
                     min_prob_num |-> 1, min_prob_den |-> 10,
                     enable_prefetch |-> TRUE]
          /\ InitCommon(cap, NewShardedWTinyLFU(cap, num_shards,
                                                CmsWidth, CmsDepth))

run_benchmark_get ==
    /\ kind = "PredictiveShardedCache"
    /\ ~work.miss
    /\ \E cand \in PredCandidates(Wrapper, opts, NextKey) :
          LET g == PredGet(Wrapper, opts, NextKey, cand)
          IN /\ shards' = g.P.base
             /\ preds' = g.P.preds
             /\ prev' = g.P.prev
             /\ work' = IF g.res = Nullopt THEN [work EXCEPT !.miss = TRUE]
                        ELSE Advance
    /\ UNCHANGED <<kind, capacity, opts, locks, thr, supplied, adds,
                   wlocks, wthr>>

run_benchmark_put ==
    /\ kind = "PredictiveShardedCache"
    /\ work.miss
    /\ LET p == PredPut(Wrapper, opts, NextKey, MaxVal)
       IN /\ shards' = p.P.base
          /\ preds' = p.P.preds
          /\ prev' = p.P.prev
    /\ work' = Advance
    /\ UNCHANGED <<kind, capacity, opts, locks, thr, supplied, adds,
                   wlocks, wthr>>

NextWorkload == run_benchmark_get \/ run_benchmark_put

SpecWorkload == InitWorkload /\ [][NextWorkload]_vars

InitSeq ==
    \/ InitLRU
    \/ InitTiny
    \/ InitShardedLRU
    \/ InitShardedWTinyLFU
    \/ InitPredictive

NextSeq ==
    \/ NextLRU
    \/ NextTiny
    \/ NextShardedLRUSeq
    \/ NextShardedWTinyLFUSeq
    \/ NextPredictiveSeq

SpecSeq == InitSeq /\ [][NextSeq]_vars

\* ------------------- the sharded caches, called by concurrent threads
\* A call is four steps of its thread: the call itself (the shard index is
\* computed), scoped_lock's acquisition of locks_[i], the delegated operation
\* on shards_[i], and the lock's release on return. size() repeats the last
\* three for each shard in turn.
InitConc ==
    /\ opts = DefaultOpts
    /\ \E cap \in 0..MaxCap, num_shards \in 1..MaxShards :
          \/ /\ kind = "ShardedLRU"
             /\ InitCommon(cap, NewShardedLRU(cap, num_shards))
          \/ /\ kind = "ShardedWTinyLFU"
             /\ InitCommon(cap, NewShardedWTinyLFU(cap, num_shards, CmsWidth, CmsDepth))

Sharded == kind \in {"ShardedLRU", "ShardedWTinyLFU"}

Enter(t, op, key, value, i) ==
    thr' = [thr EXCEPT ![t] = [pc |-> "lock", op |-> op, key |-> key,
                               val |-> value, i |-> i, res |-> Nullopt,
                               ok |-> FALSE, s |-> 0]]

Call_get(t, key) ==
    /\ Sharded
    /\ thr[t].pc = "idle"
    /\ Enter(t, "get", key, 0, Hash(key) % NumShardsOf(shards))
    /\ UNCHANGED <<kind, capacity, opts, shards, preds, prev, locks, supplied, adds,
                   wlocks, wthr, work>>

Call_put(t, key, value) ==
    /\ Sharded
    /\ thr[t].pc = "idle"
    /\ Enter(t, "put", key, value, Hash(key) % NumShardsOf(shards))
    /\ UNCHANGED <<kind, capacity, opts, shards, preds, prev, locks, adds,
                   wlocks, wthr, work>>

Call_erase(t, key) ==
    /\ Sharded
    /\ thr[t].pc = "idle"
    /\ Enter(t, "erase", key, 0, Hash(key) % NumShardsOf(shards))
    /\ UNCHANGED <<kind, capacity, opts, shards, preds, prev, locks, supplied, adds,
                   wlocks, wthr, work>>

Call_contains(t, key) ==
    /\ kind = "ShardedLRU"
    /\ thr[t].pc = "idle"
    /\ Enter(t, "contains", key, 0, shard_idx(shards, key))
    /\ UNCHANGED <<kind, capacity, opts, shards, preds, prev, locks, supplied, adds,
                   wlocks, wthr, work>>

Call_size(t) ==
    /\ kind = "ShardedLRU"
    /\ thr[t].pc = "idle"
    /\ Enter(t, "size", 0, 0, 0)
    /\ UNCHANGED <<kind, capacity, opts, shards, preds, prev, locks, supplied, adds,
                   wlocks, wthr, work>>

\* A variant that does not wait: it takes the mutex from its holder.
AcquireLock_NoWait(t) ==
    /\ thr[t].pc = "lock"
    /\ locks' = [locks EXCEPT ![thr[t].i] = t]
    /\ thr' = [thr EXCEPT ![t].pc = "held"]
    /\ UNCHANGED <<kind, capacity, opts, shards, preds, prev, supplied, adds,
                   wlocks, wthr, work>>

\* A variant in which base_ and the wrapper share their mutexes.
AcquireLock_SharedWithWrapper(t) ==
    /\ thr[t].pc = "lock"
    /\ locks[thr[t].i] = 0 /\ wlocks[thr[t].i] = 0
    /\ locks' = [locks EXCEPT ![thr[t].i] = t]
    /\ thr' = [thr EXCEPT ![t].pc = "held"]
    /\ UNCHANGED <<kind, capacity, opts, shards, preds, prev, supplied, adds,
                   wlocks, wthr, work>>

\* std::scoped_lock lock(locks_[i]): blocks while another thread holds it.
AcquireLock(t) ==
    /\ thr[t].pc = "lock"
    /\ locks[thr[t].i] = 0
    /\ locks' = [locks EXCEPT ![thr[t].i] = t]
    /\ thr' = [thr EXCEPT ![t].pc = "held"]
    /\ UNCHANGED <<kind, capacity, opts, shards, preds, prev, supplied, adds,
                   wlocks, wthr, work>>

Run_get(t) ==
    /\ thr[t].pc = "held" /\ thr[t].op = "get"
    /\ LET g == IF kind = "ShardedLRU" THEN SLRUGet(shards, thr[t].key)
                ELSE SWTGet(shards, thr[t].key)
       IN /\ shards' = g.sh
          /\ thr' = [thr EXCEPT ![t].pc = "unlock", ![t].res = g.res]
    /\ UNCHANGED <<kind, capacity, opts, preds, prev, locks, supplied, adds,
                   wlocks, wthr, work>>

Run_put(t) ==
    /\ thr[t].pc = "held" /\ thr[t].op = "put"
    /\ shards' = IF kind = "ShardedLRU"
                 THEN SLRUPut(shards, thr[t].key, thr[t].val)
                 ELSE SWTPut(shards, thr[t].key, thr[t].val).sh
    /\ thr' = [thr EXCEPT ![t].pc = "unlock"]
    /\ UNCHANGED <<kind, capacity, opts, preds, prev, locks, supplied, adds,
                   wlocks, wthr, work>>

Run_erase(t) ==
    /\ thr[t].pc = "held" /\ thr[t].op = "erase"
    /\ LET e == IF kind = "ShardedLRU" THEN SLRUErase(shards, thr[t].key)
                ELSE SWTErase(shards, thr[t].key)
       IN /\ shards' = e.sh
          /\ thr' = [thr EXCEPT ![t].pc = "unlock", ![t].ok = e.res]
    /\ UNCHANGED <<kind, capacity, opts, preds, prev, locks, supplied, adds,
                   wlocks, wthr, work>>

Run_contains(t) ==
    /\ thr[t].pc = "held" /\ thr[t].op = "contains"
    /\ thr' = [thr EXCEPT ![t].pc = "unlock",
                          ![t].ok = LRUContains(shards[thr[t].i].lru, thr[t].key)]
    /\ UNCHANGED <<kind, capacity, opts, shards, preds, prev, locks, supplied, adds,
                   wlocks, wthr, work>>

Run_size(t) ==
    /\ thr[t].pc = "held" /\ thr[t].op = "size"
    /\ thr' = [thr EXCEPT ![t].pc = "unlock",
                          ![t].s = @ + LRUSize(shards[thr[t].i].lru)]
    /\ UNCHANGED <<kind, capacity, opts, shards, preds, prev, locks, supplied, adds,
                   wlocks, wthr, work>>

\* A variant in which size() keeps each shard's lock until it returns:
\* moving on to the next shard it releases nothing.
ReleaseLock_SizeKeepsLocks(t) ==
    /\ Sharded
    /\ thr[t].pc = "unlock"
    /\ locks' = IF thr[t].op = "size" /\ thr[t].i + 1 < NumShardsOf(shards)
                THEN locks
                ELSE [i \in DOMAIN locks |-> IF locks[i] = t THEN 0 ELSE locks[i]]
    /\ thr' = IF thr[t].op = "size" /\ thr[t].i + 1 < NumShardsOf(shards)
              THEN [thr EXCEPT ![t].pc = "lock", ![t].i = @ + 1]
              ELSE [thr EXCEPT ![t] = IdleThread]
    /\ UNCHANGED <<kind, capacity, opts, shards, preds, prev, supplied, adds,
                   wlocks, wthr, work>>

\* The lock goes out of scope; size() moves on to the next shard, every
\* other call (and size() after the last shard) returns.
ReleaseLock(t) ==
    /\ Sharded
    /\ thr[t].pc = "unlock"
    /\ locks' = [locks EXCEPT ![thr[t].i] = 0]
    /\ thr' = IF thr[t].op = "size" /\ thr[t].i + 1 < NumShardsOf(shards)
              THEN [thr EXCEPT ![t].pc = "lock", ![t].i = @ + 1]
              ELSE [thr EXCEPT ![t] = IdleThread]
    /\ UNCHANGED <<kind, capacity, opts, shards, preds, prev, supplied, adds,
                   wlocks, wthr, work>>

\* The call of thread t is about to return (its result is computed).
Returning(t) ==
    /\ thr[t].pc = "unlock"
    /\ thr[t].op = "size" => thr[t].i + 1 = NumShardsOf(shards)

\* put's call records nothing here: no history is kept.
NextConc ==
    \E t \in Threads :
        \/ \E key \in Keys : Call_get(t, key)
        \/ \E key \in Keys, value \in Values :
              Call_put(t, key, value) /\ UNCHANGED supplied
        \/ \E key \in Keys : Call_erase(t, key)
        \/ \E key \in Keys : Call_contains(t, key)
        \/ Call_size(t)
        \/ AcquireLock(t)
        \/ Run_get(t)
        \/ Run_put(t)
        \/ Run_erase(t)
        \/ Run_contains(t)
        \/ Run_size(t)
        \/ ReleaseLock(t)

SpecConc == InitConc /\ [][NextConc]_vars

\* Caches of the largest capacity, over every number of shards: one shard
\* holds every key, two shards leave the first one short of room.
InitPutGet ==
    /\ opts = DefaultOpts
    /\ \E num_shards \in 1..MaxShards :
          \/ /\ kind = "ShardedLRU"
             /\ InitCommon(MaxCap, NewShardedLRU(MaxCap, num_shards))
          \/ /\ kind = "ShardedWTinyLFU"
             /\ InitCommon(MaxCap, NewShardedWTinyLFU(MaxCap, num_shards,
                                                      CmsWidth, CmsDepth))

\* Threads that call only put and get; supplied records every pair a put was
\* called with, from the moment of the call.
NextPutGet ==
    \E t \in Threads :
        \/ \E key \in Keys : Call_get(t, key)
        \/ \E key \in Keys, value \in Values :
              /\ Call_put(t, key, value)
              /\ supplied' = supplied \cup {<<key, value>>}
        \/ AcquireLock(t)
        \/ Run_get(t)
        \/ Run_put(t)
        \/ ReleaseLock(t)

SpecPutGet == InitPutGet /\ [][NextPutGet]_vars

\* ------------- PredictiveShardedCache, called by concurrent threads
\* A call on the wrapper takes the wrapper's locks_[i], and inside it every
\* call on base_ takes base_'s own locks_[i] for its duration: thr[t] is the
\* frame of the call on base_, wthr[t] the frame of the call on the wrapper.
\* Each thread makes at most MaxCalls calls on the wrapper.
MaxCalls == 2

IsPredictive == kind = "PredictiveShardedCache"

WEnter(t, op, key, value) ==
    wthr' = [wthr EXCEPT ![t] = [IdleWrapper EXCEPT
                 !.pc = "lock", !.op = op, !.key = key, !.val = value,
                 !.i = IF op = "decay_models" THEN 0 ELSE shidx(opts, key),
                 !.calls = wthr[t].calls + 1]]

Pred_Call_get(t, key) ==
    /\ IsPredictive
    /\ wthr[t].pc = "idle" /\ wthr[t].calls < MaxCalls
    /\ WEnter(t, "get", key, 0)
    /\ UNCHANGED <<kind, capacity, opts, shards, preds, prev, locks, thr,
                   supplied, adds, wlocks, work>>

Pred_Call_put(t, key, value) ==
    /\ IsPredictive
    /\ wthr[t].pc = "idle" /\ wthr[t].calls < MaxCalls
    /\ WEnter(t, "put", key, value)
    /\ UNCHANGED <<kind, capacity, opts, shards, preds, prev, locks, thr,
                   supplied, adds, wlocks, work>>

Pred_Call_erase(t, key) ==
    /\ IsPredictive
    /\ wthr[t].pc = "idle" /\ wthr[t].calls < MaxCalls
    /\ WEnter(t, "erase", key, 0)
    /\ UNCHANGED <<kind, capacity, opts, shards, preds, prev, locks, thr,
                   supplied, adds, wlocks, work>>

Pred_Call_decay_models(t) ==
    /\ IsPredictive
    /\ wthr[t].pc = "idle" /\ wthr[t].calls < MaxCalls
    /\ WEnter(t, "decay_models", 0, 0)
    /\ UNCHANGED <<kind, capacity, opts, shards, preds, prev, locks, thr,
                   supplied, adds, wlocks, work>>

\* std::scoped_lock lk(locks_[i]) of the wrapper.
\* A variant that does not wait for the wrapper's mutex: it takes it from
\* its holder.
Pred_AcquireLock_NoWait(t) ==
    /\ wthr[t].pc = "lock"
    /\ wlocks' = [wlocks EXCEPT ![wthr[t].i] = t]
    /\ wthr' = [wthr EXCEPT ![t].pc = "held"]
    /\ UNCHANGED <<kind, capacity, opts, shards, preds, prev, locks, thr,
                   supplied, adds, work>>

Pred_AcquireLock(t) ==
    /\ wthr[t].pc = "lock"
    /\ wlocks[wthr[t].i] = 0
    /\ wlocks' = [wlocks EXCEPT ![wthr[t].i] = t]
    /\ wthr' = [wthr EXCEPT ![t].pc = "held"]
    /\ UNCHANGED <<kind, capacity, opts, shards, preds, prev, locks, thr,
                   supplied, adds, work>>

\* get: the transition is learned, prev_[i] is set, base_.get(key) is called.
Pred_get_Learn(t) ==
    /\ wthr[t].pc = "held" /\ wthr[t].op = "get"
    /\ LET i == wthr[t].i
           key == wthr[t].key
       IN /\ preds' = IF prev[i] /= Nullopt
                      THEN [preds EXCEPT ![i] = observe(@, prev[i][1], key)]
                      ELSE preds
          /\ prev' = [prev EXCEPT ![i] = Some(key)]
          /\ Enter(t, "get", key, 0, idx(shards, key))
    /\ wthr' = [wthr EXCEPT ![t].pc = "base"]
    /\ UNCHANGED <<kind, capacity, opts, shards, locks, supplied, adds, wlocks, work>>

\* put: base_.put(key, value) is called.
Pred_put_Enter(t) ==
    /\ wthr[t].pc = "held" /\ wthr[t].op = "put"
    /\ Enter(t, "put", wthr[t].key, wthr[t].val, idx(shards, wthr[t].key))
    /\ wthr' = [wthr EXCEPT ![t].pc = "base"]
    /\ UNCHANGED <<kind, capacity, opts, shards, preds, prev, locks, supplied,
                   adds, wlocks, work>>

\* erase: base_.erase(key) is called.
Pred_erase_Enter(t) ==
    /\ wthr[t].pc = "held" /\ wthr[t].op = "erase"
    /\ Enter(t, "erase", wthr[t].key, 0, idx(shards, wthr[t].key))
    /\ wthr' = [wthr EXCEPT ![t].pc = "base"]
    /\ UNCHANGED <<kind, capacity, opts, shards, preds, prev, locks, supplied,
                   adds, wlocks, work>>

\* decay_models: preds_[i].decay_half() under locks_[i].
Pred_Decay(t) ==
    /\ wthr[t].pc = "held" /\ wthr[t].op = "decay_models"
    /\ preds' = [preds EXCEPT ![wthr[t].i] = MarkovDecayHalf(@)]
    /\ wthr' = [wthr EXCEPT ![t].pc = "unlock"]
    /\ UNCHANGED <<kind, capacity, opts, shards, prev, locks, thr, supplied,
                   adds, wlocks, work>>

\* The call on base_ of thread t is about to return to the wrapper.
BaseReturns(t, wop, bop) ==
    /\ IsPredictive
    /\ wthr[t].pc = "base" /\ wthr[t].op = wop
    /\ thr[t].pc = "unlock" /\ thr[t].op = bop

\* The prefetch loop moves to the candidate after position n of cand: it
\* calls base_.get on it, or the loop is over.
NextCandidate(t, cand, n, res) ==
    IF n + 1 <= Len(cand)
    THEN /\ Enter(t, "get", cand[n + 1], 0, idx(shards, cand[n + 1]))
         /\ wthr' = [wthr EXCEPT ![t].cand = cand, ![t].n = n + 1, ![t].res = res]
    ELSE /\ thr' = [thr EXCEPT ![t] = IdleThread]
         /\ wthr' = [wthr EXCEPT ![t].cand = cand, ![t].pc = "unlock",
                                 ![t].res = res]

\* get: base_.get(key) returns its result; with prefetch enabled topk_next is
\* read and the loop over its candidates starts.
Pred_get_Return(t) ==
    /\ BaseReturns(t, "get", "get") /\ wthr[t].n = 0
    /\ locks' = [locks EXCEPT ![thr[t].i] = 0]
    /\ \E cand \in (IF opts.enable_prefetch
                    THEN topk_next(preds[wthr[t].i], wthr[t].key,
                                   opts.prefetch_topk, opts.min_trans_count,
                                   opts.min_prob_num, opts.min_prob_den)
                    ELSE {<<>>}) :
          NextCandidate(t, cand, 0, thr[t].res)
    /\ UNCHANGED <<kind, capacity, opts, shards, preds, prev, supplied, adds,
                   wlocks, work>>

\* The loop's base_.get(nxt) returns: a miss is followed by
\* base_.put(nxt, Value{}), a hit by the next candidate.
Pred_prefetch_get_Return(t) ==
    /\ BaseReturns(t, "get", "get") /\ wthr[t].n > 0
    /\ locks' = [locks EXCEPT ![thr[t].i] = 0]
    /\ IF thr[t].res = Nullopt
       THEN /\ Enter(t, "put", thr[t].key, DefaultValue, idx(shards, thr[t].key))
            /\ UNCHANGED wthr
       ELSE NextCandidate(t, wthr[t].cand, wthr[t].n, wthr[t].res)
    /\ UNCHANGED <<kind, capacity, opts, shards, preds, prev, supplied, adds,
                   wlocks, work>>

\* The loop's base_.put(nxt, Value{}) returns.
Pred_prefetch_put_Return(t) ==
    /\ BaseReturns(t, "get", "put")
    /\ locks' = [locks EXCEPT ![thr[t].i] = 0]
    /\ NextCandidate(t, wthr[t].cand, wthr[t].n, wthr[t].res)
    /\ UNCHANGED <<kind, capacity, opts, shards, preds, prev, supplied, adds,
                   wlocks, work>>

\* put: base_.put returns and prev_[i] is set.
Pred_put_Return(t) ==
    /\ BaseReturns(t, "put", "put")
    /\ locks' = [locks EXCEPT ![thr[t].i] = 0]
    /\ prev' = [prev EXCEPT ![wthr[t].i] = Some(wthr[t].key)]
    /\ thr' = [thr EXCEPT ![t] = IdleThread]
    /\ wthr' = [wthr EXCEPT ![t].pc = "unlock"]
    /\ UNCHANGED <<kind, capacity, opts, shards, preds, supplied, adds, wlocks, work>>

\* erase: base_.erase returns its result.
Pred_erase_Return(t) ==
    /\ BaseReturns(t, "erase", "erase")
    /\ locks' = [locks EXCEPT ![thr[t].i] = 0]
    /\ thr' = [thr EXCEPT ![t] = IdleThread]
    /\ wthr' = [wthr EXCEPT ![t].pc = "unlock", ![t].ok = thr[t].ok]
    /\ UNCHANGED <<kind, capacity, opts, shards, preds, prev, supplied, adds,
                   wlocks, work>>

\* The wrapper's lock goes out of scope: decay_models moves on to the next
\* shard, every other call (and decay_models after the last shard) returns.
Pred_ReleaseLock(t) ==
    /\ wthr[t].pc = "unlock"
    /\ wlocks' = [wlocks EXCEPT ![wthr[t].i] = 0]
    /\ wthr' = IF wthr[t].op = "decay_models" /\ wthr[t].i + 1 < opts.shards
               THEN [wthr EXCEPT ![t].pc = "lock", ![t].i = @ + 1]
               ELSE [wthr EXCEPT ![t] = [IdleWrapper EXCEPT
                                            !.calls = wthr[t].calls]]
    /\ UNCHANGED <<kind, capacity, opts, shards, preds, prev, locks, thr,
                   supplied, adds, work>>

\* ---------- the three sharded types under fairly scheduled threads
\* The calls draw one key per shard and one value: which key or value it is
\* does not matter to the locks. The wrapper prefetches one successor seen
\* once.
LockKeys == 0..(MaxShards - 1)
LockValues == {MaxVal}

InitPredictiveConc ==
    /\ kind = "PredictiveShardedCache"
    /\ \E num_shards \in 1..MaxShards :
          /\ opts = [shards |-> num_shards, prefetch_topk |-> 1,
                     min_trans_count |-> 1,
                     min_prob_num |-> 1, min_prob_den |-> 10,
                     enable_prefetch |-> TRUE]
          /\ InitCommon(MaxCap, NewShardedWTinyLFU(MaxCap, num_shards,
                                                   CmsWidth, CmsDepth))

InitLocks == InitPutGet \/ InitPredictiveConc

\* Thread t enters a call.
Calls(t) ==
    \/ \E key \in LockKeys : Call_get(t, key)
    \/ \E key \in LockKeys, value \in LockValues :
          Call_put(t, key, value) /\ UNCHANGED supplied
    \/ \E key \in LockKeys : Call_erase(t, key)
    \/ \E key \in LockKeys : Call_contains(t, key)
    \/ Call_size(t)
    \/ \E key \in LockKeys : Pred_Call_get(t, key)
    \/ \E key \in LockKeys, value \in LockValues : Pred_Call_put(t, key, value)
    \/ \E key \in LockKeys : Pred_Call_erase(t, key)
    \/ Pred_Call_decay_models(t)

\* Thread t takes a step of the call it is in.
Progress(t) ==
    \/ AcquireLock(t)
    \/ Run_get(t)
    \/ Run_put(t)
    \/ Run_erase(t)
    \/ Run_contains(t)
    \/ Run_size(t)
    \/ ReleaseLock(t)
    \/ Pred_AcquireLock(t)
    \/ Pred_get_Learn(t)
    \/ Pred_put_Enter(t)
    \/ Pred_erase_Enter(t)
    \/ Pred_Decay(t)
    \/ Pred_get_Return(t)
    \/ Pred_prefetch_get_Return(t)
    \/ Pred_prefetch_put_Return(t)
    \/ Pred_put_Return(t)
    \/ Pred_erase_Return(t)
    \/ Pred_ReleaseLock(t)

NextLocks == \E t \in Threads : Calls(t) \/ Progress(t)

\* Fair scheduling: a thread inside a call that can take a step again and
\* again (a waiter finds the mutex free again and again) takes one. Nothing
\* obliges a thread to enter a call.
FairLocks == \A t \in Threads : SF_vars(Progress(t))

SpecLocks == InitLocks /\ [][NextLocks]_vars /\ FairLocks

\* ============================================================ claims
AllButLast(q) == SubSeq(q, 1, Len(q) - 1)
TailKey(c) == c.items[Len(c.items)][1]

\* C1: for every sequence of get, put and erase calls on an LRUCache of
\* capacity C, size() <= C after every call returns.
C1_SizeWithinCapacity ==
    kind = "LRUCache" => LRUSize(shards[0].lru) <= shards[0].lru.cap

\* A full cache of capacity at least two.
C1_Witness ==
    /\ kind = "LRUCache"
    /\ shards[0].lru.cap >= 2
    /\ LRUSize(shards[0].lru) = shards[0].lru.cap

\* C2: on an LRUCache with size = capacity, put of a key that is not
\* resident removes exactly the key at the tail of the recency order, leaves
\* every other resident key and value in place, and has the new key at the
\* head.
C2_FullPutEvictsTail ==
    kind = "LRUCache" =>
        \A key \in Keys, value \in Values :
            LET c == shards[0].lru
                expected == <<<<key, value>>>> \o AllButLast(c.items)
            IN (key \notin c.map /\ LRUSize(c) = c.cap) =>
                   /\ LRUPut(c, key, value).items = expected
                   /\ LRUPut(c, key, value).map
                          = {expected[p][1] : p \in 1..Len(expected)}

\* C4: when TinyLFUAdmittingLRU.put(k, v) is called with k not resident and
\* the LRU core at capacity, k is admitted iff estimate(k) >= estimate(victim),
\* victim the LRU tail key and both estimates read after this put's own
\* increment of k; on admission exactly the victim is removed and k is
\* inserted at the head; a tie admits k.
C4_AdmitIffNotLessThanVictim ==
    kind = "TinyLFUAdmittingLRU" =>
        \A key \in Keys, value \in Values :
            LET t == shards[0]
                p == TinyPut(t, key, value)
                admitted == key \in p.t.lru.map
            IN (key \notin t.lru.map /\ LRUSize(t.lru) = t.lru.cap
                    /\ t.lru.items /= <<>>) =>
                   /\ p.t.cms = CmsAdd(t.cms, key)
                   /\ admitted <=> CmsEstimate(p.t.cms, key)
                                      >= CmsEstimate(p.t.cms, TailKey(t.lru))
                   /\ admitted =>
                         /\ p.t.lru.items
                                = <<<<key, value>>>> \o AllButLast(t.lru.items)
                         /\ p.t.lru.map
                                = (t.lru.map \ {TailKey(t.lru)}) \cup {key}

\* A full core and a newcomer whose estimate, once incremented, ties a
\* non-zero estimate of the victim.
C4_Witness ==
    /\ kind = "TinyLFUAdmittingLRU"
    /\ \E key \in Keys :
          /\ key \notin shards[0].lru.map
          /\ shards[0].lru.items /= <<>>
          /\ LRUSize(shards[0].lru) = shards[0].lru.cap
          /\ CmsEstimate(CmsAdd(shards[0].cms, key), TailKey(shards[0].lru)) > 0
          /\ CmsEstimate(CmsAdd(shards[0].cms, key), key)
                = CmsEstimate(CmsAdd(shards[0].cms, key), TailKey(shards[0].lru))
          /\ key \in TinyPut(shards[0], key, 1).t.lru.map

\* C5: when TinyLFUAdmittingLRU.put(k, v) fails admission (k is not resident
\* when it returns), the LRU core is as before the call: resident keys,
\* values, recency order and size.
C5_RejectedPutLeavesCore ==
    kind = "TinyLFUAdmittingLRU" =>
        \A key \in Keys, value \in Values :
            LET p == TinyPut(shards[0], key, value)
            IN key \notin p.t.lru.map => p.t.lru = shards[0].lru

\* A full, non-empty core and a newcomer the comparison rejects.
C5_Witness ==
    /\ kind = "TinyLFUAdmittingLRU"
    /\ \E key \in Keys :
          /\ shards[0].lru.items /= <<>>
          /\ TinyPut(shards[0], key, 1).branch = "reject"
          /\ key \notin TinyPut(shards[0], key, 1).t.lru.map

\* The results get(key) may return right after put(key, value) returns, from
\* the current state, on the object under test.
GetAfterPut(key, value) ==
    IF kind = "LRUCache"
    THEN {LRUGet(LRUPut(shards[0].lru, key, value), key).res}
    ELSE IF kind = "TinyLFUAdmittingLRU"
    THEN {TinyGet(TinyPut(shards[0], key, value).t, key).res}
    ELSE IF kind = "ShardedLRU"
    THEN {SLRUGet(SLRUPut(shards, key, value), key).res}
    ELSE IF kind = "ShardedWTinyLFU"
    THEN {SWTGet(SWTPut(shards, key, value).sh, key).res}
    ELSE LET P1 == PredPut(Wrapper, opts, key, value).P
         IN {PredGet(P1, opts, key, cand).res : cand \in PredCandidates(P1, opts, key)}

HasSketch == kind \in {"TinyLFUAdmittingLRU", "ShardedWTinyLFU", "PredictiveShardedCache"}

\* Whether put(key, _) leaves key resident in shard t: the shard has room for
\* an entry and, behind a sketch, key is resident already, or there is free
\* room, or key's estimate after this put's increment is not below the
\* victim's.
PutKeeps(t, key) ==
    /\ t.lru.cap > 0
    /\ HasSketch =>
          \/ key \in t.lru.map
          \/ LRUSize(t.lru) < t.lru.cap
          \/ CmsEstimate(CmsAdd(t.cms, key), key)
                >= CmsEstimate(CmsAdd(t.cms, key), TailKey(t.lru))

\* C3 as stated: on every cache type, in any reachable state, put(k, v)
\* immediately followed by get(k) returns v.
C3_PutThenGetReturnsValue ==
    \A key \in Keys, value \in Values : GetAfterPut(key, value) = {Some(value)}

\* C3 as amended: put(k, v) immediately followed by get(k) returns v when the
\* put leaves k resident and absent otherwise, never another value. On
\* LRUCache and ShardedLRU the put leaves k resident when k's shard has
\* capacity > 0; on the three sketch-backed types when moreover k was
\* resident, the shard was below capacity, or estimate(k) >= estimate(victim).
C3_PutThenGetUnlessDeclined ==
    \A key \in Keys, value \in Values :
        GetAfterPut(key, value)
            = {IF PutKeeps(shards[Hash(key) % NumShardsOf(shards)], key)
               THEN Some(value) ELSE Nullopt}

\* A predictive cache whose shard is full of other keys, one of which a put
\* would replace and the get after it would find.
C3_Witness ==
    /\ kind = "PredictiveShardedCache"
    /\ \E key \in Keys, value \in Values :
          /\ PredPut(Wrapper, opts, key, value).branch = "admit"
          /\ GetAfterPut(key, value) = {Some(value)}

\* The adds of the keys that share key's counter in row i, since construction.
CollidingAdds(rows, key, i) ==
    SumOver([j \in {x \in Keys : index(x, i, CmsWidthOf(rows))
                                    = index(key, i, CmsWidthOf(rows))}
                |-> adds.total[j]])

\* C6 as stated: for every key k and every sequence of add and decay_half
\* calls, estimate(k) <= the number of add(k) calls since the last decay_half.
C6_EstimateAtMostAddsSinceDecay ==
    kind = "CountMinSketch" =>
        \A key \in Keys : CmsEstimate(shards[0].cms, key) <= adds.since[key]

\* C6 as amended: for every key k and every sequence of add and decay_half
\* calls, estimate(k) <= the number of add calls made since construction for
\* keys that share k's counter, in every row.
C6_EstimateAtMostCollidingAdds ==
    kind = "CountMinSketch" =>
        \A key \in Keys : \A i \in DOMAIN shards[0].cms :
            CmsEstimate(shards[0].cms, key) <= CollidingAdds(shards[0].cms, key, i)

\* After a decay_half, a key whose estimate exceeds its adds since then.
C6_Witness ==
    /\ kind = "CountMinSketch"
    /\ adds.decayed
    /\ \E key \in Keys :
          /\ CmsEstimate(shards[0].cms, key) > adds.since[key]
          /\ adds.since[key] > 0

\* C7: with no decay_half, for every key k and every sequence of add calls,
\* estimate(k) >= min(number of add(k) calls, maximum counter value).
C7_NeverUnderEstimates ==
    (kind = "CountMinSketch" /\ ~adds.decayed) =>
        \A key \in Keys :
            CmsEstimate(shards[0].cms, key) >= Min2(adds.total[key], CounterMax)

\* C8: for every key k, estimate(k) does not decrease across an add call of
\* any key, counters at the maximum value included.
C8_EstimateMonotoneUnderAdd ==
    kind = "CountMinSketch" =>
        \A key \in Keys, added \in Keys :
            CmsEstimate(CmsAdd(shards[0].cms, added), key)
                >= CmsEstimate(shards[0].cms, key)

\* C9: under any interleaving of concurrent calls on a ShardedLRU of total
\* capacity T over N shards, shard i never holds more than floor(T/N) entries,
\* plus T mod N for the last shard, and no size() call returns more than T.
C9_ShardSizesWithinShare ==
    kind = "ShardedLRU" =>
        LET N == NumShardsOf(shards)
        IN /\ \A i \in 0..(N - 1) :
                 LRUSize(shards[i].lru) <=
                     (capacity \div N) + (IF i = N - 1 THEN capacity % N ELSE 0)
           /\ \A t \in Threads :
                 (thr[t].op = "size" /\ Returning(t)) => thr[t].s <= capacity

\* The last shard is filled to floor(T/N) + T mod N with T mod N > 0, and a
\* size() call returns T while the other thread is inside a call.
C9_Witness ==
    /\ kind = "ShardedLRU"
    /\ LET N == NumShardsOf(shards)
       IN /\ capacity % N > 0
          /\ LRUSize(shards[N - 1].lru) = (capacity \div N) + (capacity % N)
          /\ \E t, u \in Threads :
                /\ t /= u
                /\ thr[t].op = "size" /\ Returning(t) /\ thr[t].s = capacity
                /\ thr[u].pc = "lock" /\ thr[u].op = "put"

\* C10: under any interleaving of concurrent put and get calls on a ShardedLRU
\* or ShardedWTinyLFU, a present value that get(k) is about to return was
\* passed to some put(k, v) called before.
C10_GetReturnsSuppliedValue ==
    \A t \in Threads :
        (thr[t].op = "get" /\ thr[t].pc = "unlock" /\ thr[t].res /= Nullopt)
            => <<thr[t].key, thr[t].res[1]>> \in supplied

\* get(k) is about to return a present value while another thread's put of a
\* different value for the same key is in flight.
C10_Witness ==
    \E t, u \in Threads :
        /\ t /= u
        /\ thr[t].op = "get" /\ thr[t].pc = "unlock" /\ thr[t].res /= Nullopt
        /\ thr[u].op = "put" /\ thr[u].pc = "lock"
        /\ thr[u].key = thr[t].key /\ thr[u].val /= thr[t].res[1]

\* The mutexes thread t holds: base_'s (or the sharded cache's) and the
\* wrapper's.
HeldBy(t) ==
    Cardinality({i \in DOMAIN locks : locks[i] = t})
        + Cardinality({i \in DOMAIN wlocks : wlocks[i] = t})

InCall(t) == thr[t].pc /= "idle" \/ wthr[t].pc /= "idle"

\* C11: under fair scheduling, every get, put, erase, contains, size and
\* decay_models call issued by concurrent threads on ShardedLRU,
\* ShardedWTinyLFU or PredictiveShardedCache eventually returns.
C11_EveryCallReturns ==
    \A t \in Threads : InCall(t) ~> ~InCall(t)

\* A thread waits for the wrapper's lock of a shard while its holder is
\* inside the prefetch loop's base_.put, holding base_'s lock as well.
C11_Witness ==
    /\ IsPredictive
    /\ \E t, u \in Threads :
          /\ t /= u
          /\ wthr[t].pc = "lock" /\ wlocks[wthr[t].i] = u
          /\ wthr[u].op = "get" /\ wthr[u].n > 0
          /\ thr[u].op = "put" /\ thr[u].pc = "held"

\* C12: construction with capacity 0 is rejected for LRUCache,
\* TinyLFUAdmittingLRU, ShardedLRU, ShardedWTinyLFU and
\* PredictiveShardedCache: no object of these types has capacity 0.
C12_CapacityZeroRejected ==
    kind \in {"LRUCache", "TinyLFUAdmittingLRU", "ShardedLRU",
              "ShardedWTinyLFU", "PredictiveShardedCache"}
        => capacity > 0

\* C13: every key that get(k) prefetches hashes to k's shard index, in the
\* wrapper and in the underlying ShardedWTinyLFU, and the get leaves every
\* other shard of the underlying cache as it was.
C13_PrefetchStaysInShard ==
    IsPredictive =>
        \A key \in Keys : \A cand \in PredCandidates(Wrapper, opts, key) :
            /\ \A n \in 1..Len(cand) :
                  /\ shidx(opts, cand[n]) = shidx(opts, key)
                  /\ idx(shards, cand[n]) = idx(shards, key)
                  /\ idx(shards, cand[n]) = shidx(opts, key)
            /\ \A j \in DOMAIN shards :
                  j /= idx(shards, key)
                      => PredGet(Wrapper, opts, key, cand).P.base[j] = shards[j]

\* A get whose predictor names another key, which the prefetch then inserts
\* with the placeholder value.
C13_Witness ==
    /\ IsPredictive
    /\ opts.enable_prefetch
    /\ \E key \in Keys : \E cand \in PredCandidates(Wrapper, opts, key) :
          /\ Len(cand) = 1 /\ cand[1] /= key
          /\ cand[1] \notin shards[idx(shards, cand[1])].lru.map
          /\ LRUGet(PredGet(Wrapper, opts, key, cand)
                        .P.base[idx(shards, cand[1])].lru, cand[1]).res
                = Some(DefaultValue)

\* The stored count of the transition p -> k, an absent one read as 0.
CountOf(m, p, k) ==
    IF p \in DOMAIN m.trans /\ k \in DOMAIN m.trans[p] THEN m.trans[p][k] ELSE 0

PrefetchOff == ~opts.enable_prefetch \/ opts.prefetch_topk = 0

\* C14: with enable_prefetch false or prefetch_topk 0, each get, put and
\* erase on the wrapper leaves the underlying cache (resident keys, values,
\* recency order, sketch counters) as the same call on a plain
\* ShardedWTinyLFU in that state does and returns the same result,
\* decay_models leaves it alone, and get still counts the transition from
\* the shard's previous key. The two start from the same empty state, so
\* they agree along every sequence of calls.
C14_PrefetchOffActsAsBase ==
    (IsPredictive /\ PrefetchOff) =>
        \A key \in Keys :
            /\ \A cand \in PredCandidates(Wrapper, opts, key) :
                  LET g == PredGet(Wrapper, opts, key, cand)
                      i == shidx(opts, key)
                  IN /\ g.P.base = SWTGet(shards, key).sh
                     /\ g.res = SWTGet(shards, key).res
                     /\ g.P.prev[i] = Some(key)
                     /\ prev[i] /= Nullopt =>
                           CountOf(g.P.preds[i], prev[i][1], key)
                               = (CountOf(preds[i], prev[i][1], key) + 1)
                                     % (MarkovCounterMax + 1)
            /\ \A value \in Values :
                  PredPut(Wrapper, opts, key, value).P.base
                      = SWTPut(shards, key, value).sh
            /\ PredErase(Wrapper, key).P.base = SWTErase(shards, key).sh
            /\ PredErase(Wrapper, key).res = SWTErase(shards, key).res
            /\ PredDecayModels(Wrapper).base = shards

\* Prefetch is enabled with prefetch_topk 0, and the predictor holds a
\* successor that is not resident: with prefetch_topk 1 the get would have
\* inserted it.
C14_Witness ==
    /\ IsPredictive
    /\ opts.enable_prefetch /\ opts.prefetch_topk = 0
    /\ \E key \in Keys :
          \E cand \in PredCandidates(Wrapper, [opts EXCEPT !.prefetch_topk = 1], key) :
              /\ Len(cand) = 1 /\ cand[1] /= key
              /\ cand[1] \notin shards[idx(shards, cand[1])].lru.map

\* The predictor of key's shard once get(key) has recorded the transition.
Learned(key) ==
    LET i == shidx(opts, key)
    IN IF prev[i] /= Nullopt THEN observe(preds[i], prev[i][1], key)
       ELSE preds[i]

\* Whether key is resident in the underlying cache sh.
ResidentIn(sh, key) == key \in sh[idx(sh, key)].lru.map

\* Whether the prefetch of succ within get(key) ends with succ resident: it
\* was resident, or the placeholder's put is admitted.
PrefetchKeeps(key, succ) ==
    LET b == SWTGet(SWTGet(shards, key).sh, succ).sh
    IN \/ ResidentIn(b, succ)
       \/ PutKeeps(b[idx(b, succ)], succ)

\* C15 as stated: on the pattern 0, 1, 2 with prefetch_topk 1,
\* min_trans_count 2 and min_trans_prob 0.1, once the loop is warmed up every
\* get(0) prefetches key 1 and every get(1) prefetches key 2, and the
\* successor is resident when the get returns.
C15_WarmGetPrefetchesSuccessor ==
    (work.rounds >= WarmRounds /\ ~work.miss /\ work.pos + 1 < Len(Pattern)) =>
        \A cand \in PredCandidates(Wrapper, opts, NextKey) :
            /\ cand = <<NextKey + 1>>
            /\ ResidentIn(PredGet(Wrapper, opts, NextKey, cand).P.base,
                          NextKey + 1)

\* C15 as amended: on that pattern get(k), k in {0, 1}, prefetches k + 1
\* exactly when k + 1 hashes to k's shard and the stored count of the
\* transition k -> k + 1, this get's observation included, is at least
\* min_trans_count; it then prefetches nothing else. The successor is
\* resident when the get returns exactly when it was resident already or the
\* underlying cache admits the placeholder. With one shard the count is at
\* least 2 from the third round on, until the counter wraps to 0; with 0 and
\* 1 on different shards get(0) never prefetches 1.
C15_PrefetchesSuccessorWhenCounted ==
    (~work.miss /\ work.pos + 1 < Len(Pattern)) =>
        LET key == NextKey
            succ == NextKey + 1
        IN \A cand \in PredCandidates(Wrapper, opts, key) :
              /\ (cand = <<succ>>)
                    <=> /\ shidx(opts, succ) = shidx(opts, key)
                        /\ CountOf(Learned(key), key, succ)
                              >= opts.min_trans_count
              /\ (cand /= <<succ>>) => \A n \in 1..Len(cand) : cand[n] /= succ
              /\ (cand = <<succ>>) =>
                    (ResidentIn(PredGet(Wrapper, opts, key, cand).P.base, succ)
                        <=> PrefetchKeeps(key, succ))

\* A warmed-up get(0) on one shard whose prefetch inserts the absent key 1.
C15_Witness ==
    /\ work.rounds >= WarmRounds /\ ~work.miss /\ NextKey = 0
    /\ opts.shards = 1
    /\ ~ResidentIn(shards, 1)
    /\ \E cand \in PredCandidates(Wrapper, opts, 0) :
          /\ cand = <<1>>
          /\ ResidentIn(PredGet(Wrapper, opts, 0, cand).P.base, 1)

\* C16: on LRUCache, TinyLFUAdmittingLRU and ShardedLRU, erase(k) returns
\* true exactly when k was resident; after it contains(k) is false and an
\* immediate second erase(k) returns false.
C16_EraseRemovesKey ==
    \A key \in Keys :
        /\ kind = "LRUCache" =>
              LET e == LRUErase(shards[0].lru, key)
              IN /\ e.res = LRUContains(shards[0].lru, key)
                 /\ ~LRUContains(e.c, key)
                 /\ ~LRUErase(e.c, key).res
        /\ kind = "TinyLFUAdmittingLRU" =>
              LET e == TinyErase(shards[0], key)
              IN /\ e.res = TinyContains(shards[0], key)
                 /\ ~TinyContains(e.t, key)
                 /\ ~TinyErase(e.t, key).res
        /\ kind = "ShardedLRU" =>
              LET e == SLRUErase(shards, key)
              IN /\ e.res = SLRUContains(shards, key)
                 /\ ~SLRUContains(e.sh, key)
                 /\ ~SLRUErase(e.sh, key).res

\* A ShardedLRU with two resident keys in one shard, of which erase removes
\* the older and keeps the other.
C16_Witness ==
    /\ kind = "ShardedLRU"
    /\ \E key, other \in Keys :
          /\ key /= other
          /\ shard_idx(shards, key) = shard_idx(shards, other)
          /\ SLRUContains(shards, key) /\ SLRUContains(shards, other)
          /\ peek_lru_key(shards[shard_idx(shards, key)].lru) = Some(key)
          /\ SLRUErase(shards, key).res
          /\ ~SLRUContains(SLRUErase(shards, key).sh, key)
          /\ SLRUContains(SLRUErase(shards, key).sh, other)

\* The mutexes of base_ (of the cache itself, without a wrapper) and of the
\* wrapper that thread t holds.
BaseHeld(t) == {i \in DOMAIN locks : locks[i] = t}
WrapperHeld(t) == {i \in DOMAIN wlocks : wlocks[i] = t}

\* C17 as stated: every operation on a top-level cache holds at most one
\* mutex at any instant.
C17_AtMostOneMutex ==
    \A t \in Threads : HeldBy(t) <= 1

\* C17 as amended: a call holds at most one mutex of each lock array at any
\* instant; size() and decay_models take the shard locks one at a time. On
\* ShardedLRU and ShardedWTinyLFU that is at most one mutex. A get, put or
\* erase on PredictiveShardedCache holds the wrapper's mutex of the key's
\* shard and, inside each call it makes on base_, base_'s mutex of the same
\* shard as well: two mutexes, the wrapper's always taken first.
C17_AtMostOneMutexPerLayer ==
    \A t \in Threads :
        /\ Cardinality(BaseHeld(t)) <= 1
        /\ Cardinality(WrapperHeld(t)) <= 1
        /\ ~IsPredictive => WrapperHeld(t) = {}
        /\ (IsPredictive /\ BaseHeld(t) /= {}) => WrapperHeld(t) = BaseHeld(t)

\* A thread inside the wrapper holds the wrapper's mutex and base_'s mutex
\* of shard 1 at once, while another holds the wrapper's mutex of shard 0
\* in decay_models.
C17_Witness ==
    /\ IsPredictive
    /\ \E t, u \in Threads :
          /\ t /= u
          /\ WrapperHeld(t) = {1} /\ BaseHeld(t) = {1}
          /\ wthr[u].op = "decay_models" /\ WrapperHeld(u) = {0}

\* Thread t is where a call reads or writes shards_[i] of the cache (of
\* base_ under the wrapper): between taking and releasing locks_[i].
InShard(t, i) == thr[t].pc \in {"held", "unlock"} /\ thr[t].i = i

\* Thread t is where a wrapper call reads or writes preds_[i] and prev_[i].
InWrapperShard(t, i) ==
    wthr[t].pc \in {"held", "base", "unlock"} /\ wthr[t].i = i

\* The shard a call with a key works on is the key's.
OnKeysShard(t) ==
    /\ (thr[t].pc /= "idle" /\ thr[t].op /= "size")
          => thr[t].i = Hash(thr[t].key) % NumShardsOf(shards)
    /\ (wthr[t].pc /= "idle" /\ wthr[t].op /= "decay_models")
          => wthr[t].i = shidx(opts, wthr[t].key)

ExclusiveShards ==
    \A t \in Threads :
        /\ OnKeysShard(t)
        /\ \A i \in DOMAIN shards :
              /\ InShard(t, i) => locks[i] = t
              /\ InWrapperShard(t, i) => wlocks[i] = t
              /\ \A u \in Threads \ {t} :
                    /\ ~(InShard(t, i) /\ InShard(u, i))
                    /\ ~(InWrapperShard(t, i) /\ InWrapperShard(u, i))

\* A step that changes shard i's state is taken by a thread inside shard i.
WritesUnderLock ==
    \A i \in DOMAIN shards :
        /\ shards'[i] /= shards[i]
              => \E t \in Threads : InShard(t, i) /\ locks[i] = t
        /\ (preds'[i] /= preds[i] \/ prev'[i] /= prev[i])
              => \E t \in Threads : InWrapperShard(t, i) /\ wlocks[i] = t

\* C18: no two threads are inside the same shard's state at once, a thread
\* inside shard i's state holds shard i's lock, the shard is the one its key
\* hashes to, and every step that changes shard i's state is taken by a
\* thread holding shard i's lock.
C18_ShardAccessUnderItsLock ==
    []ExclusiveShards /\ [][WritesUnderLock]_vars

\* One thread is inside a shard of a ShardedWTinyLFU, in put, while the
\* other waits for that shard's lock.
C18_Witness ==
    /\ kind = "ShardedWTinyLFU"
    /\ \E t, u \in Threads :
          /\ t /= u
          /\ InShard(t, 1) /\ thr[t].op = "put" /\ thr[t].pc = "held"
          /\ thr[u].pc = "lock" /\ thr[u].i = 1

\* The stored total of predecessor p, an absent one read as 0.
TotalOf(m, p) == IF p \in DOMAIN m.totals THEN m.totals[p] ELSE 0

\* The sum of the stored counts of p's successors.
SumOfCounts(m, p) == IF p \in DOMAIN m.trans THEN SumOver(m.trans[p]) ELSE 0

\* C19: after any sequence of observe and decay_half calls, the total of
\* every predecessor equals the sum of the counts of its successors.
C19_TotalIsSumOfCounts ==
    kind = "MarkovPredictor" =>
        \A p \in Keys : TotalOf(preds[0], p) = SumOfCounts(preds[0], p)

\* C20: observe leaves a counter that is at its maximum there and adds one
\* to any other: it never wraps.
C20_ObserveSaturates ==
    kind = "MarkovPredictor" =>
        \A p \in MarkovKeys, k \in MarkovKeys :
            LET m == observe(preds[0], p, k)
            IN /\ CountOf(m, p, k)
                     = Min2(CountOf(preds[0], p, k) + 1, MarkovCounterMax)
               /\ TotalOf(m, p) = Min2(TotalOf(preds[0], p) + 1, MarkovCounterMax)

\* Whether predictor m2 is predictor m with the transition p -> k counted
\* once more (one increment of its count and of p's total) and nothing else
\* changed.
OneMoreTransition(m, m2, p, k) ==
    \A a \in Keys :
        /\ TotalOf(m2, a) = IF a = p THEN WrapInc(TotalOf(m, a)) ELSE TotalOf(m, a)
        /\ \A b \in Keys :
              CountOf(m2, a, b) = IF a = p /\ b = k THEN WrapInc(CountOf(m, a, b))
                                  ELSE CountOf(m, a, b)

\* C21: get(k), routed to shard i, counts the transition prev[i] -> k once
\* in shard i's predictor when prev[i] is set and counts nothing when it is
\* unset, leaves every other shard's predictor alone, and leaves prev[i] = k
\* and every other prev alone, whatever it prefetches; put(k, v) sets
\* prev[i] = k and counts nothing; erase changes neither the predictors nor
\* prev.
C21_GetRecordsOneTransition ==
    IsPredictive =>
        \A key \in Keys :
            LET i == shidx(opts, key)
            IN /\ \A cand \in PredCandidates(Wrapper, opts, key) :
                     LET g == PredGet(Wrapper, opts, key, cand)
                     IN /\ g.P.prev = [prev EXCEPT ![i] = Some(key)]
                        /\ \A j \in DOMAIN preds :
                              j /= i => g.P.preds[j] = preds[j]
                        /\ IF prev[i] = Nullopt
                           THEN g.P.preds[i] = preds[i]
                           ELSE OneMoreTransition(preds[i], g.P.preds[i],
                                                  prev[i][1], key)
               /\ \A value \in Values :
                     LET p == PredPut(Wrapper, opts, key, value)
                     IN /\ p.P.preds = preds
                        /\ p.P.prev = [prev EXCEPT ![i] = Some(key)]
               /\ PredErase(Wrapper, key).P.preds = preds
               /\ PredErase(Wrapper, key).P.prev = prev

\* A get whose shard has a previous key records the transition and also
\* prefetches an absent successor, which is inserted; prev becomes the key
\* of the get, not the prefetched one.
C21_Witness ==
    /\ IsPredictive
    /\ \E key \in Keys : \E cand \in PredCandidates(Wrapper, opts, key) :
          LET i == shidx(opts, key)
              g == PredGet(Wrapper, opts, key, cand)
          IN /\ prev[i] /= Nullopt /\ prev[i] /= Some(key)
             /\ Len(cand) = 1 /\ cand[1] /= key
             /\ ~ResidentIn(shards, cand[1])
             /\ ResidentIn(g.P.base, cand[1])
             /\ g.P.prev[i] = Some(key)
             /\ CountOf(g.P.preds[i], prev[i][1], key)
                   = CountOf(preds[i], prev[i][1], key) + 1

\* Whether sketch rows2 is sketch rows after one observation of k: in every
\* row the counter of k's column is one higher, or still at the maximum,
\* and no other counter differs.
OneObservation(rows, rows2, k) ==
    /\ DOMAIN rows2 = DOMAIN rows
    /\ \A i \in DOMAIN rows :
          /\ DOMAIN rows2[i] = DOMAIN rows[i]
          /\ \A j \in DOMAIN rows[i] :
                rows2[i][j] = IF j = index(k, i, CmsWidthOf(rows))
                              THEN Min2(rows[i][j] + 1, CounterMax)
                              ELSE rows[i][j]

\* C22: on TinyLFUAdmittingLRU every get(k) and every put(k, v) observes k in
\* the sketch exactly once, on a hit and on a miss, and whether the put
\* updates, inserts, admits or rejects; erase leaves the sketch as it is;
\* decay halves the counters, raising none, and leaves the LRU core as it is.
C22_OneObservationPerGetAndPut ==
    kind = "TinyLFUAdmittingLRU" =>
        LET t == shards[0]
        IN /\ \A key \in Keys :
                 /\ OneObservation(t.cms, TinyGet(t, key).t.cms, key)
                 /\ \A value \in Values :
                       OneObservation(t.cms, TinyPut(t, key, value).t.cms, key)
                 /\ TinyErase(t, key).t.cms = t.cms
           /\ TinyDecay(t).lru = t.lru
           /\ \A i \in DOMAIN t.cms : \A j \in DOMAIN t.cms[i] :
                 TinyDecay(t).cms[i][j] = t.cms[i][j] \div 2

\* A full cache in which get misses a key and put of that key is rejected,
\* and each of the two raises the key's counters, which are below the
\* maximum, by one.
C22_Witness ==
    /\ kind = "TinyLFUAdmittingLRU"
    /\ LET t == shards[0]
       IN \E key \in Keys, value \in Values :
             /\ t.lru.cap > 0 /\ LRUSize(t.lru) = t.lru.cap
             /\ TinyGet(t, key).res = Nullopt
             /\ TinyPut(t, key, value).branch = "reject"
             /\ \A i \in DOMAIN t.cms :
                   /\ t.cms[i][index(key, i, CmsWidthOf(t.cms))] < CounterMax
                   /\ TinyGet(t, key).t.cms[i][index(key, i, CmsWidthOf(t.cms))]
                         = t.cms[i][index(key, i, CmsWidthOf(t.cms))] + 1
                   /\ TinyPut(t, key, value).t.cms[i][index(key, i, CmsWidthOf(t.cms))]
                         = t.cms[i][index(key, i, CmsWidthOf(t.cms))] + 1

\* The arguments topk_next is called with: top_k up to the benchmark's,
\* the benchmark's min_count, min_prob 1/10 and 1/2.
TopKs == 0..BenchTopK
MinCounts == {BenchMinTransCount}
MinProbs == {<<1, 10>>, <<1, 2>>}

\* The recorded successors of cur.
Successors(m, cur) == IF cur \in DOMAIN m.trans THEN DOMAIN m.trans[cur] ELSE {}

\* The successors of cur that pass both thresholds.
Qualifying(m, cur, min_count, pr) ==
    {s \in Successors(m, cur) :
        /\ CountOf(m, cur, s) >= min_count
        /\ CountOf(m, cur, s) * pr[2] >= pr[1] * TotalOf(m, cur)}

\* C23: topk_next(cur, K, min_count, min_prob) returns at most K distinct
\* keys, each a recorded successor of cur whose count is at least min_count
\* and whose probability count / total is at least min_prob, in order of
\* non-increasing probability; no successor left out has a strictly higher
\* probability than a returned one; the list is as long as K and the
\* qualifying successors allow; it is empty when cur has no recorded
\* transition or its total is 0.
C23_TopkNextReturnsBestK ==
    kind = "MarkovPredictor" =>
        \A cur \in MarkovKeys, mc \in MinCounts, pr \in MinProbs :
           \A Q \in {Qualifying(preds[0], cur, mc, pr)},
              S \in {Successors(preds[0], cur)},
              total \in {TotalOf(preds[0], cur)},
              c \in {[s \in MarkovKeys |-> CountOf(preds[0], cur, s)]} :
              \A K \in TopKs :
                 \A outs \in {topk_next(preds[0], cur, K, mc, pr[1], pr[2])} :
                    /\ outs /= {}
                    /\ \A out \in outs :
                          /\ Len(out) <= K
                          /\ \A a, b \in 1..Len(out) : a /= b => out[a] /= out[b]
                          /\ \A a \in 1..Len(out) : out[a] \in Q
                          /\ \A a, b \in 1..Len(out) : a < b => c[out[a]] >= c[out[b]]
                          /\ \A s \in S :
                                (\A a \in 1..Len(out) : out[a] /= s)
                                    => \A a \in 1..Len(out) : c[s] <= c[out[a]]
                          /\ total /= 0 => Len(out) = Min2(K, Cardinality(Q))
                          /\ (S = {} \/ total = 0) => out = <<>>

\* Key 0 has two recorded successors that both pass the thresholds, one
\* with the higher count: with K = 1 that one is returned, the other left
\* out.
C23_Witness ==
    /\ kind = "MarkovPredictor"
    /\ \E s, r \in MarkovKeys :
          /\ {s, r} \subseteq Qualifying(preds[0], 0, BenchMinTransCount, <<1, 10>>)
          /\ CountOf(preds[0], 0, s) > CountOf(preds[0], 0, r)
          /\ topk_next(preds[0], 0, 1, BenchMinTransCount, 1, 10) = {<<s>>}

\* Thread t is in get's prefetch loop between the miss of base_.get(nxt) and
\* the end of base_.put(nxt, Value{}): the put is called and has not run.
PlaceholderPutPending(t) ==
    /\ wthr[t].op = "get" /\ wthr[t].pc = "base" /\ wthr[t].n > 0
    /\ thr[t].op = "put" /\ thr[t].pc \in {"lock", "held"}

\* The key of a pending placeholder put is absent from its shard.
AbsentUntilPlaceholderPut ==
    \A t \in Threads :
        (IsPredictive /\ PlaceholderPutPending(t))
            => /\ ~ResidentIn(shards, thr[t].key)
               /\ thr[t].val = DefaultValue
               /\ wlocks[wthr[t].i] = t
               /\ idx(shards, thr[t].key) = wthr[t].i

\* A step that changes the value of a key that stays resident is the
\* base_.put of a thread's own put(k, v), never a prefetch's.
ValueChangesOnlyByPut ==
    IsPredictive =>
        \A k \in Keys :
            LET i == idx(shards, k)
            IN (/\ ResidentIn(shards, k) /\ ResidentIn(shards', k)
                /\ LRUGet(shards'[i].lru, k).res /= LRUGet(shards[i].lru, k).res)
                   => \E t \in Threads :
                         /\ wthr[t].op = "put" /\ wthr[t].key = k
                         /\ thr[t].op = "put" /\ thr[t].pc = "held"
                         /\ LRUGet(shards'[i].lru, k).res = Some(wthr[t].val)

\* C24: under every interleaving of PredictiveShardedCache calls, from the
\* miss of the prefetch's presence check to its placeholder put the
\* predicted key stays absent (the thread holds the wrapper's mutex of the
\* key's shard throughout), and no prefetch changes the value of a resident
\* key.
C24_PrefetchNeverOverwrites ==
    []AbsentUntilPlaceholderPut /\ [][ValueChangesOnlyByPut]_vars

\* A prefetch has missed key k and its placeholder put waits for base_'s
\* lock while another thread, in put(k, v), waits for the wrapper's mutex of
\* k's shard.
C24_Witness ==
    /\ IsPredictive
    /\ \E t, u \in Threads :
          /\ t /= u
          /\ PlaceholderPutPending(t) /\ thr[t].pc = "lock"
          /\ wthr[u].op = "put" /\ wthr[u].pc = "lock"
          /\ wthr[u].key = thr[t].key
          /\ wthr[u].i = wthr[t].i

====
